---- MODULE Spec2Model ----
(***************************************************************************)
(* Tool-mediated chat relay of the career assistant: the Orchestrator      *)
(* (src/agents/orchestrator.py), the ToolRegistry (src/tools/base.py), the *)
(* tools (src/tools/career_tools.py, src/tools/learning_tools.py), the     *)
(* PDF helpers (src/tools/pdf_utils.py) and the GigaChat client            *)
(* (src/clients/gigachat.py).                                              *)
(*                                                                         *)
(* Python str values are sequences of Unicode code points, so that         *)
(* lower(), strip(), slicing, "in" and join are computed as Python         *)
(* computes them.  Identifiers that are never transformed (roles, tool     *)
(* names, file paths, dict keys) are TLA+ strings.                         *)
(***************************************************************************)
EXTENDS Integers, Sequences, FiniteSets, TLC

VARIABLES api_key, tool_registry, chat_history, attachments, pc, frame, requests, outcome, turn_input, turns, offline_seen, unit_call

vars == <<api_key, tool_registry, chat_history, attachments, pc, frame, requests, outcome, turn_input, turns, offline_seen, unit_call>>

(***************************************************************************)
(* Bounds of the model.                                                    *)
(***************************************************************************)
\* chat() calls started in one session
MaxTurns == 2
\* chat() calls started in one offline session
MaxOfflineTurns == 3
\* tool calls carried by one completion response
MaxCalls == 2
\* documents attached in one session
MaxAttach == 1

(***************************************************************************)
(* Python str operations on code-point sequences.                          *)
(***************************************************************************)
\* s[:n] for n >= 0
Take(s, n) == SubSeq(s, 1, IF n < Len(s) THEN n ELSE Len(s))

\* t.startswith(s)
IsPrefix(s, t) == Len(s) <= Len(t) /\ SubSeq(t, 1, Len(s)) = s

\* needle in hay
Contains(needle, hay) == \E i \in 0..(Len(hay) - Len(needle)) : SubSeq(hay, i + 1, i + Len(needle)) = needle

\* str.lower() of one code point: ASCII A-Z, Cyrillic U+0410..U+042F (+32) and
\* U+0400..U+040F (+80); other code points of these two alphabets are unchanged.
LowerChar(c) == IF (c >= 65 /\ c <= 90) \/ (c >= 1040 /\ c <= 1071) THEN c + 32 ELSE IF c >= 1024 /\ c <= 1039 THEN c + 80 ELSE c

Lower(s) == [i \in 1..Len(s) |-> LowerChar(s[i])]

\* the code points str.strip() removes (str.isspace)
Whitespace == {9, 10, 11, 12, 13, 28, 29, 30, 31, 32, 133, 160, 5760, 8232, 8233, 8239, 8287, 12288} \cup (8192..8202)

RECURSIVE FirstKept(_, _)
\* the first position from i on that strip() keeps, Len(s) + 1 when there is none
FirstKept(s, i) == IF i > Len(s) THEN i ELSE IF s[i] \notin Whitespace THEN i ELSE FirstKept(s, i + 1)

RECURSIVE LastKept(_, _)
\* the last position up to i that strip() keeps, 0 when there is none
LastKept(s, i) == IF i < 1 THEN 0 ELSE IF s[i] \notin Whitespace THEN i ELSE LastKept(s, i - 1)

\* s.strip()
Strip(s) ==
    LET first == FirstKept(s, 1)
        last == LastKept(s, Len(s))
    IN  IF first > last THEN <<>> ELSE SubSeq(s, first, last)

RECURSIVE Join(_, _)
\* sep.join(parts)
Join(sep, parts) ==
    IF Len(parts) = 0 THEN <<>>
    ELSE IF Len(parts) = 1 THEN parts[1]
    ELSE parts[1] \o sep \o Join(sep, Tail(parts))

NEWLINE == <<10>>

\* dict.get(key, default) on a record whose keys are its DOMAIN
Get(d, key, default) == IF key \in DOMAIN d THEN d[key] ELSE default

\* the value Python's None takes where a str is expected (tool names, raw arguments)
None == "<None>"

\* an optional str (None or a str), as held by pdf_excerpt
NoStr == [some |-> FALSE, v |-> <<>>]

SomeStr(s) == [some |-> TRUE, v |-> s]

(***************************************************************************)
(* String literals of the source, as code points.                          *)
(***************************************************************************)
\* "Ты мульти-агентный карьерный ассистент. Используй инструменты карьерного и учебного агентов, если это помогает ответить. Говори на русском и объясняй рекомендации подробно."
BASE_PROMPT ==
    <<1058, 1099, 32, 1084, 1091, 1083, 1100, 1090, 1080, 45, 1072, 1075, 1077, 1085, 1090,
    1085, 1099, 1081, 32, 1082, 1072, 1088, 1100, 1077, 1088, 1085, 1099, 1081, 32, 1072, 1089,
    1089, 1080, 1089, 1090, 1077, 1085, 1090, 46, 32, 1048, 1089, 1087, 1086, 1083, 1100, 1079,
    1091, 1081, 32, 1080, 1085, 1089, 1090, 1088, 1091, 1084, 1077, 1085, 1090, 1099, 32, 1082,
    1072, 1088, 1100, 1077, 1088, 1085, 1086, 1075, 1086, 32, 1080, 32, 1091, 1095, 1077, 1073,
    1085, 1086, 1075, 1086, 32, 1072, 1075, 1077, 1085, 1090, 1086, 1074, 44, 32, 1077, 1089,
    1083, 1080, 32, 1101, 1090, 1086, 32, 1087, 1086, 1084, 1086, 1075, 1072, 1077, 1090, 32,
    1086, 1090, 1074, 1077, 1090, 1080, 1090, 1100, 46, 32, 1043, 1086, 1074, 1086, 1088, 1080,
    32, 1085, 1072, 32, 1088, 1091, 1089, 1089, 1082, 1086, 1084, 32, 1080, 32, 1086, 1073,
    1098, 1103, 1089, 1085, 1103, 1081, 32, 1088, 1077, 1082, 1086, 1084, 1077, 1085, 1076,
    1072, 1094, 1080, 1080, 32, 1087, 1086, 1076, 1088, 1086, 1073, 1085, 1086, 46>>

\* "\n\nПрикрепленные документы:\n"
DOCS_HEADER ==
    <<10, 10, 1055, 1088, 1080, 1082, 1088, 1077, 1087, 1083, 1077, 1085, 1085, 1099, 1077, 32,
    1076, 1086, 1082, 1091, 1084, 1077, 1085, 1090, 1099, 58, 10>>

\* "GigaChat временно недоступен, но я использовал локальные инструменты."
OFFLINE_HEADER ==
    <<71, 105, 103, 97, 67, 104, 97, 116, 32, 1074, 1088, 1077, 1084, 1077, 1085, 1085, 1086,
    32, 1085, 1077, 1076, 1086, 1089, 1090, 1091, 1087, 1077, 1085, 44, 32, 1085, 1086, 32,
    1103, 32, 1080, 1089, 1087, 1086, 1083, 1100, 1079, 1086, 1074, 1072, 1083, 32, 1083, 1086,
    1082, 1072, 1083, 1100, 1085, 1099, 1077, 32, 1080, 1085, 1089, 1090, 1088, 1091, 1084,
    1077, 1085, 1090, 1099, 46>>

\* "резюме"
KW_RESUME ==
    <<1088, 1077, 1079, 1102, 1084, 1077>>

\* "ваканс"
KW_VACANCY ==
    <<1074, 1072, 1082, 1072, 1085, 1089>>

\* "обуч"
KW_STUDY ==
    <<1086, 1073, 1091, 1095>>

\* "курс"
KW_COURSE ==
    <<1082, 1091, 1088, 1089>>

\* "материал"
KW_MATERIAL ==
    <<1084, 1072, 1090, 1077, 1088, 1080, 1072, 1083>>

\* "концеп"
KW_CONCEPT ==
    <<1082, 1086, 1085, 1094, 1077, 1087>>

\* "объясн"
KW_EXPLAIN ==
    <<1086, 1073, 1098, 1103, 1089, 1085>>

(***************************************************************************)
(* The file system seen by pypdf: a readable path maps to the text of its  *)
(* pages (extract_text() of each page); any other path cannot be opened.   *)
(***************************************************************************)
\* the characters of one page of the long document: two pages exceed the excerpt budget
LongPageLen == 1500

\* "cv.pdf": pages " cv ", "" (no text layer), "dev\n"; "blank.pdf": no pages; "long.pdf":
\* two pages of LongPageLen characters each, the first after a space, the second before a
\* line end
Files ==
    [path \in {"cv.pdf", "blank.pdf", "long.pdf"} |->
        CASE path = "cv.pdf" ->
                [name |-> <<99, 118, 46, 112, 100, 102>>, pages |-> << <<32, 99, 118, 32>>, <<>>, <<100, 101, 118, 10>> >>]
          [] path = "blank.pdf" ->
                [name |-> <<98, 108, 97, 110, 107, 46, 112, 100, 102>>, pages |-> << >>]
          [] path = "long.pdf" ->
                [name |-> <<108, 111, 110, 103, 46, 112, 100, 102>>,
                 pages |-> << <<32>> \o [i \in 1..LongPageLen |-> 97], [i \in 1..LongPageLen |-> 98] \o <<10>> >>]]

ReadablePaths == DOMAIN Files

\* a path no file exists at
MISSING_PDF == "missing.pdf"

RECURSIVE PageTexts(_)
\* the loop of extract_text_from_pdf: the stripped text of every page that has text
PageTexts(pages) ==
    IF pages = <<>> THEN <<>>
    ELSE IF Head(pages) # <<>> THEN <<Strip(Head(pages))>> \o PageTexts(Tail(pages))
    ELSE PageTexts(Tail(pages))

\* extract_text_from_pdf(path) for a readable path
extract_text_from_pdf(path) == Join(NEWLINE, PageTexts(Files[path].pages))

RECURSIVE SummarizeLoop(_, _, _, _)
\* the for loop of summarize_chunks: returns the buffer
SummarizeLoop(chunks, buffer, total, max_chars) ==
    IF chunks = <<>> THEN buffer
    ELSE LET chunk == Strip(Head(chunks))
         IN  IF chunk = <<>> THEN SummarizeLoop(Tail(chunks), buffer, total, max_chars)
             ELSE IF total + Len(chunk) > max_chars
                  THEN LET remaining == max_chars - total
                       IN  IF remaining <= 0 THEN buffer ELSE Append(buffer, Take(chunk, remaining))
                  ELSE SummarizeLoop(Tail(chunks), Append(buffer, chunk), total + Len(chunk), max_chars)

\* summarize_chunks without the budget test: every stripped non-empty chunk, whole
summarize_chunks_without_budget(chunks, max_chars) ==
    Join(NEWLINE, SelectSeq([i \in 1..Len(chunks) |-> Strip(chunks[i])], LAMBDA chunk : chunk # <<>>))

summarize_chunks(chunks, max_chars) == Join(NEWLINE, SummarizeLoop(chunks, <<>>, 0, max_chars))

\* CareerTools.max_pdf_chars, LearningTools.max_pdf_chars
max_pdf_chars == 2000

\* the max_chars attach_pdf passes
ATTACH_MAX_CHARS == 2000

(***************************************************************************)
(* Python values of a tool payload.  A dict is a record of all the keys    *)
(* the tools read, with the set of keys that are present; an absent key    *)
(* holds a fixed filler.  json.loads may also give a list or None.         *)
(***************************************************************************)
EmptyDict == [keys |-> {}, pdf_path |-> "", include_failures |-> FALSE, notes |-> <<>>, topic |-> <<>>, term |-> <<>>]

PyDict(d) == [t |-> "dict", d |-> d, n |-> 0]

\* a list of n elements
PyList(n) == [t |-> "list", d |-> EmptyDict, n |-> n]

PyNone == [t |-> "none", d |-> EmptyDict, n |-> 0]

\* a non-empty str
PyStr == [t |-> "str", d |-> EmptyDict, n |-> 1]

\* bool(value) is False
Falsy(value) == value.t = "none" \/ (value.t = "dict" /\ value.d.keys = {}) \/ (value.t = "list" /\ value.n = 0)

\* payload.get("pdf_path") is truthy
HasPath(d) == "pdf_path" \in d.keys /\ d.pdf_path # ""

\* payload.get(key) is truthy, for the keys notes, topic and term
HasText(d, key) == key \in d.keys /\ d[key] # <<>>

\* json.loads(arguments_raw) on the raw argument strings the remote service sends here
json_loads(raw) ==
    CASE raw = "{}" -> [ok |-> TRUE, value |-> PyDict(EmptyDict)]
      [] raw = "{\"include_failures\": false}" -> [ok |-> TRUE, value |-> PyDict([EmptyDict EXCEPT !.keys = {"include_failures"}])]
      [] raw = "{\"pdf_path\": \"missing.pdf\"}" -> [ok |-> TRUE, value |-> PyDict([EmptyDict EXCEPT !.keys = {"pdf_path"}, !.pdf_path = MISSING_PDF])]
      [] raw = "{\"pdf_path\": \"cv.pdf\"}" -> [ok |-> TRUE, value |-> PyDict([EmptyDict EXCEPT !.keys = {"pdf_path"}, !.pdf_path = "cv.pdf"])]
      [] raw = "{\"term\": \"API\"}" -> [ok |-> TRUE, value |-> PyDict([EmptyDict EXCEPT !.keys = {"term"}, !.term = <<65, 80, 73>>])]
      [] raw = "[1]" -> [ok |-> TRUE, value |-> PyList(1)]
      [] raw = "null" -> [ok |-> TRUE, value |-> PyNone]
      [] OTHER -> [ok |-> FALSE, value |-> PyNone]

(***************************************************************************)
(* The static tables of the tools.  A table entry is named by an           *)
(* identifier; only the interview questions and the concept terms are      *)
(* searched by the handlers, so they carry their text.                     *)
(***************************************************************************)
SUCCESSFUL_RESUMES == <<"successful_frontend", "successful_data_engineer", "successful_product">>

FAILED_RESUMES == <<"failed_no_specifics", "failed_seven_pages", "failed_copy_of_vacancy">>

VACANCY_DESCRIPTIONS == <<"vacancy_good_frontend", "vacancy_bad_analyst">>

\* "Как вы объясните свой провал в проекте?"
QUESTION_1 ==
    <<1050, 1072, 1082, 32, 1074, 1099, 32, 1086, 1073, 1098, 1103, 1089, 1085, 1080, 1090,
    1077, 32, 1089, 1074, 1086, 1081, 32, 1087, 1088, 1086, 1074, 1072, 1083, 32, 1074, 32,
    1087, 1088, 1086, 1077, 1082, 1090, 1077, 63>>

\* "Чем гордитесь больше всего?"
QUESTION_2 ==
    <<1063, 1077, 1084, 32, 1075, 1086, 1088, 1076, 1080, 1090, 1077, 1089, 1100, 32, 1073,
    1086, 1083, 1100, 1096, 1077, 32, 1074, 1089, 1077, 1075, 1086, 63>>

\* "Что сделаете в первые 90 дней?"
QUESTION_3 ==
    <<1063, 1090, 1086, 32, 1089, 1076, 1077, 1083, 1072, 1077, 1090, 1077, 32, 1074, 32, 1087,
    1077, 1088, 1074, 1099, 1077, 32, 57, 48, 32, 1076, 1085, 1077, 1081, 63>>

INTERVIEW_QA == <<[id |-> 1, question |-> QUESTION_1], [id |-> 2, question |-> QUESTION_2], [id |-> 3, question |-> QUESTION_3]>>

CAREER_PATHS == <<"path_frontend", "path_data_analyst">>

LEARNING_MATERIALS == <<"material_stepik", "material_mit", "material_youtube">>

\* the keys of CONCEPT_EXPLANATIONS, in order: "docker", "api", "ml"
CONCEPT_EXPLANATIONS == << <<100, 111, 99, 107, 101, 114>>, <<97, 112, 105>>, <<109, 108>> >>

(***************************************************************************)
(* The handlers.  A handler gives [ok |-> TRUE, output |-> dict] or, when  *)
(* it raises, [ok |-> FALSE, error |-> exception name].                    *)
(***************************************************************************)
Returned(output) == [ok |-> TRUE, output |-> output, error |-> ""]

Raised(error) == [ok |-> FALSE, output |-> [failed |-> TRUE], error |-> error]

\* pdf_path = payload.get("pdf_path"); if pdf_path: the excerpt of the file, which raises
\* when the file cannot be read
PdfReadable(d) == ~HasPath(d) \/ d.pdf_path \in ReadablePaths

PdfExcerpt(d) == IF HasPath(d) THEN SomeStr(summarize_chunks(<<extract_text_from_pdf(d.pdf_path)>>, max_pdf_chars)) ELSE NoStr

resume_examples_handler(payload) ==
    IF payload.t # "dict" THEN Raised("AttributeError")
    ELSE IF ~PdfReadable(payload.d) THEN Raised("FileNotFoundError")
    ELSE LET include_failures == IF "include_failures" \in payload.d.keys THEN payload.d.include_failures ELSE TRUE
         IN  Returned([successful |-> SUCCESSFUL_RESUMES,
                       unsuccessful |-> IF include_failures THEN FAILED_RESUMES ELSE <<>>,
                       pdf_excerpt |-> PdfExcerpt(payload.d)])

vacancy_judger_handler(payload) ==
    IF payload.t # "dict" THEN Raised("AttributeError")
    ELSE IF ~PdfReadable(payload.d) THEN Raised("FileNotFoundError")
    ELSE Returned([vacancies |-> VACANCY_DESCRIPTIONS,
                   comment |-> IF HasText(payload.d, "notes") THEN payload.d.notes ELSE <<>>,
                   pdf_excerpt |-> PdfExcerpt(payload.d)])

interview_qa_handler(payload) ==
    IF payload.t # "dict" THEN Raised("AttributeError")
    ELSE LET topic == Lower(IF HasText(payload.d, "topic") THEN payload.d.topic ELSE <<>>)
             Matches(item) == Contains(topic, Lower(item.question))
             results == SelectSeq(INTERVIEW_QA, Matches)
         IN  Returned([qa |-> IF topic # <<>> /\ results # <<>> THEN results ELSE INTERVIEW_QA])

career_paths_handler(payload) == Returned([paths |-> CAREER_PATHS])

learning_materials_handler(payload) ==
    IF payload.t # "dict" THEN Raised("AttributeError")
    ELSE IF ~PdfReadable(payload.d) THEN Raised("FileNotFoundError")
    ELSE Returned([materials |-> LEARNING_MATERIALS, pdf_excerpt |-> PdfExcerpt(payload.d)])

concept_explanations_handler(payload) ==
    IF payload.t # "dict" THEN Raised("AttributeError")
    ELSE LET term == Lower(IF HasText(payload.d, "term") THEN payload.d.term ELSE <<>>)
         IN  IF term # <<>> /\ \E i \in 1..Len(CONCEPT_EXPLANATIONS) : CONCEPT_EXPLANATIONS[i] = term
             THEN Returned([concepts |-> <<term>>])
             ELSE Returned([concepts |-> CONCEPT_EXPLANATIONS])

(***************************************************************************)
(* Tools and the registry.                                                 *)
(***************************************************************************)
\* a Tool: its name, its description (named, the text is never read), the property names of
\* its input schema, in order, and its handler (named by the tool)
Tool(name, properties) == [name |-> name, description |-> name, input_schema |-> [type |-> "object", properties |-> properties], handler |-> name]

CareerTools_tools ==
    << Tool("career_resume_examples", <<"pdf_path", "include_failures">>),
       Tool("career_vacancy_reviews", <<"pdf_path", "notes">>),
       Tool("career_interview_qa", <<"topic">>) >>

LearningTools_tools ==
    << Tool("learning_career_paths", <<>>),
       Tool("learning_materials_with_reviews", <<"pdf_path">>),
       Tool("learning_simple_explanations", <<"term">>) >>

\* CareerAgent.tools(): the career agent's toolset, as LearningAgent.tools() gives the
\* learning agent's
CareerAgent_tools == CareerTools_tools

LearningAgent_tools == LearningTools_tools

\* Orchestrator._collect_tools
collect_tools == CareerAgent_tools \o LearningAgent_tools

\* the handler a Tool record names, applied to a payload
CallHandler(handler, payload) ==
    CASE handler = "career_resume_examples" -> resume_examples_handler(payload)
      [] handler = "career_vacancy_reviews" -> vacancy_judger_handler(payload)
      [] handler = "career_interview_qa" -> interview_qa_handler(payload)
      [] handler = "learning_career_paths" -> career_paths_handler(payload)
      [] handler = "learning_materials_with_reviews" -> learning_materials_handler(payload)
      [] handler = "learning_simple_explanations" -> concept_explanations_handler(payload)

\* Tool.run(payload): self.handler(payload or {})
Tool_run(tool, payload) == CallHandler(tool.handler, IF Falsy(payload) THEN PyDict(EmptyDict) ELSE payload)

RECURSIVE RegistryFrom(_, _)
\* ToolRegistry.__init__: {tool.name: tool for tool in tools}; a dict keeps the position of
\* the first insertion of a key and the value of the last
RegistryFrom(tools, registry) ==
    IF tools = <<>> THEN registry
    ELSE LET tool == Head(tools)
             at == {i \in 1..Len(registry) : registry[i].name = tool.name}
         IN  RegistryFrom(Tail(tools), IF at = {} THEN Append(registry, tool) ELSE [registry EXCEPT ![CHOOSE i \in at : TRUE] = tool])

ToolRegistry_init(tools) == RegistryFrom(tools, <<>>)

\* ToolRegistry.names
ToolRegistry_names(registry) == [i \in 1..Len(registry) |-> registry[i].name]

Registered(registry, name) == \E i \in 1..Len(registry) : registry[i].name = name

\* a description that leaves out the tools whose schema has no properties
describe_for_llm_skips_schemaless(registry) ==
    LET described == SelectSeq(registry, LAMBDA tool : tool.input_schema.properties # <<>>)
    IN  [i \in 1..Len(described) |->
            [type |-> "function",
             function |-> [name |-> described[i].name, description |-> described[i].description, parameters |-> described[i].input_schema]]]

\* ToolRegistry.describe_for_llm
describe_for_llm(registry) ==
    [i \in 1..Len(registry) |->
        [type |-> "function",
         function |-> [name |-> registry[i].name, description |-> registry[i].description, parameters |-> registry[i].input_schema]]]

\* a run that falls back on the first tool for a name it does not know
ToolRegistry_run_falls_back(registry, name, payload) ==
    IF ~Registered(registry, name) THEN Tool_run(registry[1], payload)
    ELSE Tool_run(registry[CHOOSE i \in 1..Len(registry) : registry[i].name = name], payload)

\* ToolRegistry.run(name, payload): KeyError for an unregistered name
ToolRegistry_run(registry, name, payload) ==
    IF ~Registered(registry, name) THEN Raised("KeyError")
    ELSE Tool_run(registry[CHOOSE i \in 1..Len(registry) : registry[i].name = name], payload)

\* the characters of a tool name, as an f-string renders it
Chars(name) ==
    CASE name = "career_resume_examples" ->
        <<99, 97, 114, 101, 101, 114, 95, 114, 101, 115, 117, 109, 101, 95, 101, 120, 97, 109, 112, 108, 101, 115>>
      [] name = "career_vacancy_reviews" ->
        <<99, 97, 114, 101, 101, 114, 95, 118, 97, 99, 97, 110, 99, 121, 95, 114, 101, 118, 105, 101, 119, 115>>
      [] name = "career_interview_qa" ->
        <<99, 97, 114, 101, 101, 114, 95, 105, 110, 116, 101, 114, 118, 105, 101, 119, 95, 113, 97>>
      [] name = "learning_career_paths" ->
        <<108, 101, 97, 114, 110, 105, 110, 103, 95, 99, 97, 114, 101, 101, 114, 95, 112, 97, 116, 104, 115>>
      [] name = "learning_materials_with_reviews" ->
        <<108, 101, 97, 114, 110, 105, 110, 103, 95, 109, 97, 116, 101, 114, 105, 97, 108, 115, 95, 119, 105, 116, 104, 95, 114, 101, 118, 105, 101, 119, 115>>
      [] name = "learning_simple_explanations" ->
        <<108, 101, 97, 114, 110, 105, 110, 103, 95, 115, 105, 109, 112, 108, 101, 95, 101, 120, 112, 108, 97, 110, 97, 116, 105, 111, 110, 115>>
      [] OTHER -> <<63>>

(***************************************************************************)
(* json.dumps(output, ensure_ascii=False).  The serialized text of a table *)
(* entry is one code above the Unicode range (JSON_ITEM + its number), so  *)
(* that the text stays a str and distinct outputs give distinct texts.     *)
(***************************************************************************)
JSON_ITEM ==
    [successful_frontend |-> 1114201, successful_data_engineer |-> 1114202, successful_product |-> 1114203,
     failed_no_specifics |-> 1114204, failed_seven_pages |-> 1114205, failed_copy_of_vacancy |-> 1114206,
     vacancy_good_frontend |-> 1114207, vacancy_bad_analyst |-> 1114208,
     path_frontend |-> 1114209, path_data_analyst |-> 1114210,
     material_stepik |-> 1114211, material_mit |-> 1114212, material_youtube |-> 1114213]

\* "[", "]", "{", "}", ", ", "null", "\""
JSON_PUNCT == [open |-> <<91>>, close |-> <<93>>, obj |-> <<123>>, end |-> <<125>>, comma |-> <<44, 32>>, null |-> <<110, 117, 108, 108>>, quote |-> <<34>>]

JsonStr(s) == JSON_PUNCT.quote \o s \o JSON_PUNCT.quote

JsonOptStr(o) == IF o.some THEN JsonStr(o.v) ELSE JSON_PUNCT.null

JsonList(parts) == JSON_PUNCT.open \o Join(JSON_PUNCT.comma, parts) \o JSON_PUNCT.close

JsonItems(ids) == JsonList([i \in 1..Len(ids) |-> <<JSON_ITEM[ids[i]]>>])

\* the values of the output's keys, in the order the handler writes them
json_dumps(output) ==
    JSON_PUNCT.obj \o
    Join(JSON_PUNCT.comma,
        CASE "successful" \in DOMAIN output -> <<JsonItems(output.successful), JsonItems(output.unsuccessful), JsonOptStr(output.pdf_excerpt)>>
          [] "vacancies" \in DOMAIN output -> <<JsonItems(output.vacancies), JsonStr(output.comment), JsonOptStr(output.pdf_excerpt)>>
          [] "qa" \in DOMAIN output -> <<JsonList([i \in 1..Len(output.qa) |-> JsonStr(output.qa[i].question)])>>
          [] "paths" \in DOMAIN output -> <<JsonItems(output.paths)>>
          [] "materials" \in DOMAIN output -> <<JsonItems(output.materials), JsonOptStr(output.pdf_excerpt)>>
          [] "concepts" \in DOMAIN output -> <<JsonList([i \in 1..Len(output.concepts) |-> JsonStr(output.concepts[i])])>>)
    \o JSON_PUNCT.end

\* the handlers ToolRegistry.run(name, ...) calls, in order: none when the name is not
\* registered (the KeyError is raised before any lookup), else the handler of self._tools[name]
HandlersRun(registry, name) ==
    IF ~Registered(registry, name) THEN <<>>
    ELSE <<registry[CHOOSE i \in 1..Len(registry) : registry[i].name = name].handler>>
(***************************************************************************)
(* GigaChatClient.                                                         *)
(***************************************************************************)
\* an availability test that only rules out the empty key
client_available_unless_empty(key) == key # ""

\* GigaChatClient.available: bool(self.api_key)
client_available(key) == key # None /\ key # ""

\* GigaChatClient.model
MODEL_NAME == "GigaChat"

\* a payload that sets tool_choice whether or not tools are given
client_payload_choice_always(messages, tools, tool_choice) ==
    LET payload == [model |-> "GigaChat", messages |-> messages] @@ (IF tool_choice # None /\ tool_choice # "" THEN [tool_choice |-> tool_choice] ELSE <<>>)
    IN  IF tools # <<>> THEN payload @@ [tools |-> tools] ELSE payload

\* the payload GigaChatClient.chat posts; tools is a list or None (<<>> stands for both,
\* the code only tests its truth), tool_choice a str or None
client_payload(messages, tools, tool_choice) ==
    LET payload == [model |-> MODEL_NAME, messages |-> messages]
    IN  IF tools # <<>>
        THEN IF tool_choice # None /\ tool_choice # ""
             THEN payload @@ [tools |-> tools, tool_choice |-> tool_choice]
             ELSE payload @@ [tools |-> tools]
        ELSE payload

\* the default of the tool_choice parameter of GigaChatClient.chat
DEFAULT_TOOL_CHOICE == "auto"

(***************************************************************************)
(* Orchestrator: pure parts.                                               *)
(***************************************************************************)
\* Orchestrator._build_system_prompt
build_system_prompt(docs) ==
    IF docs = <<>> THEN BASE_PROMPT
    ELSE LET doc_lines == [i \in 1..Len(docs) |-> <<45, 32>> \o docs[i].name \o <<58, 32>> \o Take(docs[i].excerpt, 400)]
         IN  BASE_PROMPT \o DOCS_HEADER \o Join(NEWLINE, doc_lines)

SystemMessage(docs) == [role |-> "system", content |-> build_system_prompt(docs)]

\* [doc.name for doc in self._attachments]
AttachmentNames(docs) == [i \in 1..Len(docs) |-> docs[i].name]

\* the message of a completion response: response.get("choices", [{}])[0].get("message", {})
ResponseMessage(response) == Get(Get(response, "choices", << <<>> >>)[1], "message", <<>>)

\* a test of the key alone: an empty tool_calls list counts as a request for tools
HasToolCalls_key_present(message) == "tool_calls" \in DOMAIN message

\* assistant_message.get("tool_calls") is truthy
HasToolCalls(message) == "tool_calls" \in DOMAIN message /\ message.tool_calls # <<>>

\* message.get("content", "")
ContentOf(message) == Get(message, "content", <<>>)

\* a parse that keeps the raw str when it is not JSON
parse_arguments_keeps_raw(arguments_raw) == IF json_loads(arguments_raw).ok THEN json_loads(arguments_raw).value ELSE PyStr

\* try: arguments = json.loads(arguments_raw); except json.JSONDecodeError: arguments = {}
parse_arguments(arguments_raw) == IF json_loads(arguments_raw).ok THEN json_loads(arguments_raw).value ELSE PyDict(EmptyDict)

RECURSIVE ProcessLoop(_, _, _, _)
\* the for loop of Orchestrator._process_tool_calls over the calls left: the history and
\* the ledger it ends with, and the exception that ended it ("" when it ran to its end)
ProcessLoop(calls, history, used_tools, registry) ==
    IF calls = <<>> THEN [history |-> history, used_tools |-> used_tools, error |-> ""]
    ELSE LET function == Get(Head(calls), "function", <<>>)
             name == Get(function, "name", None)
         IN  IF name = None \/ name = "" THEN ProcessLoop(Tail(calls), history, used_tools, registry)
             ELSE LET given == Get(function, "arguments", None)
                      arguments_raw == IF given = None \/ given = "" THEN "{}" ELSE given
                      arguments == parse_arguments(arguments_raw)
                      result == ToolRegistry_run(registry, name, arguments)
                  IN  IF ~result.ok THEN [history |-> history, used_tools |-> used_tools, error |-> result.error]
                      ELSE ProcessLoop(Tail(calls),
                                       Append(history, [role |-> "tool", name |-> name, content |-> json_dumps(result.output)]),
                                       Append(used_tools, [name |-> name, arguments |-> arguments, output |-> result.output]),
                                       registry)

\* a _process_tool_calls that keeps a window of the history: it drops the oldest message
process_tool_calls_windowed(tool_calls, history, registry) == ProcessLoop(tool_calls, Tail(history), <<>>, registry)

\* Orchestrator._process_tool_calls
process_tool_calls(tool_calls, history, registry) == ProcessLoop(tool_calls, history, <<>>, registry)

\* a selection written as an if/elif chain: only the first matching keyword selects
OfflineToolNames_first_match(lower) ==
    IF Contains(KW_RESUME, lower) THEN <<"career_resume_examples">>
    ELSE IF Contains(KW_VACANCY, lower) THEN <<"career_vacancy_reviews">>
    ELSE IF \E keyword \in {KW_STUDY, KW_COURSE, KW_MATERIAL} : Contains(keyword, lower) THEN <<"learning_materials_with_reviews">>
    ELSE IF Contains(KW_CONCEPT, lower) \/ Contains(KW_EXPLAIN, lower) THEN <<"learning_simple_explanations">>
    ELSE <<"learning_career_paths">>

\* the tool_names list of Orchestrator._offline_chat, from the lowercased message
OfflineToolNames(lower) ==
    LET selected == (IF Contains(KW_RESUME, lower) THEN <<"career_resume_examples">> ELSE <<>>)
                    \o (IF Contains(KW_VACANCY, lower) THEN <<"career_vacancy_reviews">> ELSE <<>>)
                    \o (IF \E keyword \in {KW_STUDY, KW_COURSE, KW_MATERIAL} : Contains(keyword, lower) THEN <<"learning_materials_with_reviews">> ELSE <<>>)
                    \o (IF Contains(KW_CONCEPT, lower) \/ Contains(KW_EXPLAIN, lower) THEN <<"learning_simple_explanations">> ELSE <<>>)
    IN  IF selected = <<>> THEN <<"learning_career_paths">> ELSE selected

RECURSIVE OfflineRun(_, _, _)
\* the loop of _offline_chat that runs the selected tools: KeyError skips the tool, any
\* other exception ends the loop
OfflineRun(names, tool_outputs, registry) ==
    IF names = <<>> THEN [tool_outputs |-> tool_outputs, error |-> ""]
    ELSE LET result == ToolRegistry_run(registry, Head(names), PyNone)
         IN  IF result.ok THEN OfflineRun(Tail(names), Append(tool_outputs, [name |-> Head(names), output |-> result.output]), registry)
             ELSE IF result.error = "KeyError" THEN OfflineRun(Tail(names), tool_outputs, registry)
             ELSE [tool_outputs |-> tool_outputs, error |-> result.error]

\* "Tool {name}: {json.dumps(output)[:600]}"
OfflineLine(item) == <<84, 111, 111, 108, 32>> \o Chars(item.name) \o <<58, 32>> \o Take(json_dumps(item.output), 600)

\* the answer of _offline_chat
OfflineAnswer(tool_outputs) == Join(NEWLINE, <<OFFLINE_HEADER>> \o [i \in 1..Len(tool_outputs) |-> OfflineLine(tool_outputs[i])])

\* what chat() returns, and what it leaves when it raises
ReturnedOutcome(answer, used_tools, docs) == [kind |-> "returned", answer |-> answer, used_tools |-> used_tools, attachments |-> AttachmentNames(docs), error |-> ""]

RaisedOutcome(error) == [kind |-> "raised", answer |-> <<>>, used_tools |-> <<>>, attachments |-> <<>>, error |-> error]

\* an _offline_chat that looks for the keywords in every message of the history
offline_chat_scans_history(user_message, history, registry, docs) ==
    LET tool_names == OfflineToolNames(Lower(Join(NEWLINE, [i \in 1..Len(history) |-> history[i].content])))
        ran == OfflineRun(tool_names, <<>>, registry)
        answer == OfflineAnswer(ran.tool_outputs)
    IN  IF ran.error # "" THEN [history |-> history, outcome |-> RaisedOutcome(ran.error)]
        ELSE [history |-> Append(history, [role |-> "assistant", content |-> answer]),
              outcome |-> ReturnedOutcome(answer, ran.tool_outputs, docs)]

\* an _offline_chat that returns its answer without appending it to the history
offline_chat_answer_unrecorded(user_message, history, registry, docs) ==
    LET tool_names == OfflineToolNames(Lower(user_message))
        ran == OfflineRun(tool_names, <<>>, registry)
        answer == OfflineAnswer(ran.tool_outputs)
    IN  IF ran.error # "" THEN [history |-> history, outcome |-> RaisedOutcome(ran.error)]
        ELSE [history |-> history, outcome |-> ReturnedOutcome(answer, ran.tool_outputs, docs)]

\* Orchestrator._offline_chat(user_message), called with the user entry already in the
\* history: the history it leaves and how it ends
offline_chat(user_message, history, registry, docs) ==
    LET tool_names == OfflineToolNames(Lower(user_message))
        ran == OfflineRun(tool_names, <<>>, registry)
        answer == OfflineAnswer(ran.tool_outputs)
    IN  IF ran.error # "" THEN [history |-> history, outcome |-> RaisedOutcome(ran.error)]
        ELSE [history |-> Append(history, [role |-> "assistant", content |-> answer]),
              outcome |-> ReturnedOutcome(answer, ran.tool_outputs, docs)]

\* follow-up messages that leave the tool-role messages out
follow_up_messages_without_tools(history, docs) == <<SystemMessage(docs)>> \o SelectSeq(history, LAMBDA m : m.role # "tool")

\* follow_up_messages of chat(): the system prompt and the whole history
follow_up_messages(history, docs) == <<SystemMessage(docs)>> \o history

(***************************************************************************)
(* LearningAgent: the duration of a roadmap.                               *)
(***************************************************************************)
\* LearningAgent._LEVEL_ORDER: новичок, стажер, выпускник, junior, middle, senior
LEVEL_ORDER ==
    << <<1085, 1086, 1074, 1080, 1095, 1086, 1082>>,
       <<1089, 1090, 1072, 1078, 1077, 1088>>,
       <<1074, 1099, 1087, 1091, 1089, 1082, 1085, 1080, 1082>>,
       <<106, 117, 110, 105, 111, 114>>,
       <<109, 105, 100, 100, 108, 101>>,
       <<115, 101, 110, 105, 111, 114>> >>

\* " месяцев при занятиях 12–15 часов в неделю"
ESTIMATE_SUFFIX ==
    <<32, 1084, 1077, 1089, 1103, 1094, 1077, 1074, 32, 1087, 1088, 1080, 32, 1079, 1072, 1085,
    1103, 1090, 1080, 1103, 1093, 32, 49, 50, 8211, 49, 53, 32, 1095, 1072, 1089, 1086, 1074,
    32, 1074, 32, 1085, 1077, 1076, 1077, 1083, 1102>>

\* the dash between the two numbers of the range
EN_DASH == <<8211>>

RECURSIVE Digits(_)
\* the decimal digits of n >= 0
Digits(n) == IF n < 10 THEN <<48 + n>> ELSE Digits(n \div 10) \o <<48 + (n % 10)>>

\* str(n), as an f-string renders an int
str_int(n) == IF n < 0 THEN <<45>> \o Digits(-n) ELSE Digits(n)

\* list.index(value): the 0-based position of the first equal element; ok is FALSE where
\* Python raises ValueError
list_index(list, value) ==
    LET at == {i \in 1..Len(list) : list[i] = value}
    IN  IF at = {} THEN [ok |-> FALSE, i |-> 0] ELSE [ok |-> TRUE, i |-> (CHOOSE i \in at : \A j \in at : i <= j) - 1]

\* an estimate without the max(0, ...): a target below the current level shortens the plan
estimate_time_unclamped(current, target) ==
    LET found_start == list_index(LEVEL_ORDER, Lower(current))
        start_index == IF found_start.ok THEN found_start.i ELSE 0
        found_target == list_index(LEVEL_ORDER, Lower(target))
        target_index == IF found_target.ok THEN found_target.i ELSE start_index + 1
        months == 2 + (target_index - start_index) * 3
    IN  str_int(months) \o EN_DASH \o str_int(months + 2) \o ESTIMATE_SUFFIX

\* LearningAgent._estimate_time
estimate_time(current, target) ==
    LET found_start == list_index(LEVEL_ORDER, Lower(current))
        start_index == IF found_start.ok THEN found_start.i ELSE 0
        found_target == list_index(LEVEL_ORDER, Lower(target))
        target_index == IF found_target.ok THEN found_target.i ELSE start_index + 1
        difference == target_index - start_index
        delta == IF difference > 0 THEN difference ELSE 0
        months == 2 + delta * 3
    IN  str_int(months) \o EN_DASH \o str_int(months + 2) \o ESTIMATE_SUFFIX

\* LearningAgent.build_roadmap: the entries "user_input" and "примерная длительность" of the
\* plan (the other entries are lists of fixed texts chosen by direction and current level)
build_roadmap(request) ==
    [user_input |-> [direction |-> request.direction, current_level |-> request.current_level, target_level |-> request.target_level],
     duration |-> estimate_time(request.current_level, request.target_level)]

\* Orchestrator.create_roadmap
create_roadmap(direction, current_level, target_level) ==
    build_roadmap([direction |-> direction, current_level |-> current_level, target_level |-> target_level])

(***************************************************************************)
(* Inputs: what the user types and what the remote service answers.        *)
(***************************************************************************)
\* "покажи примеры резюме"
TEXT_SHOW_RESUME ==
    <<1087, 1086, 1082, 1072, 1078, 1080, 32, 1087, 1088, 1080, 1084, 1077, 1088, 1099, 32,
    1088, 1077, 1079, 1102, 1084, 1077>>

\* "РЕЗЮМЕ и Вакансии"
TEXT_RESUME_VACANCY_UPPER ==
    <<1056, 1045, 1047, 1070, 1052, 1045, 32, 1080, 32, 1042, 1072, 1082, 1072, 1085, 1089,
    1080, 1080>>

\* "привет"
TEXT_HELLO ==
    <<1087, 1088, 1080, 1074, 1077, 1090>>

\* "Курсы по вакансиям"
TEXT_COURSES_VACANCIES ==
    <<1050, 1091, 1088, 1089, 1099, 32, 1087, 1086, 32, 1074, 1072, 1082, 1072, 1085, 1089,
    1080, 1103, 1084>>

\* "обучение"
TEXT_STUDY ==
    <<1086, 1073, 1091, 1095, 1077, 1085, 1080, 1077>>

\* "учебный материал"
TEXT_MATERIAL ==
    <<1091, 1095, 1077, 1073, 1085, 1099, 1081, 32, 1084, 1072, 1090, 1077, 1088, 1080, 1072,
    1083>>

\* "объясни концепцию"
TEXT_EXPLAIN_CONCEPT ==
    <<1086, 1073, 1098, 1103, 1089, 1085, 1080, 32, 1082, 1086, 1085, 1094, 1077, 1087, 1094,
    1080, 1102>>

\* "Концепция"
TEXT_CONCEPT_CAPITAL ==
    <<1050, 1086, 1085, 1094, 1077, 1087, 1094, 1080, 1103>>

\* "ОБЪЯСНИ курс"
TEXT_EXPLAIN_UPPER_COURSE ==
    <<1054, 1041, 1066, 1071, 1057, 1053, 1048, 32, 1082, 1091, 1088, 1089>>

\* "резюм"
TEXT_NEAR_MISS ==
    <<1088, 1077, 1079, 1102, 1084>>

\* "GigaChat временно недоступен"
CLAIMED_PREFIX ==
    <<71, 105, 103, 97, 67, 104, 97, 116, 32, 1074, 1088, 1077, 1084, 1077, 1085, 1085, 1086,
    32, 1085, 1077, 1076, 1086, 1089, 1090, 1091, 1087, 1077, 1085>>

\* the user messages of a session
UserTexts == {TEXT_SHOW_RESUME, TEXT_HELLO}

\* the user messages of an offline session: every keyword alone, with capitals, in an order
\* other than the mapping's, and none
OfflineTexts == {TEXT_SHOW_RESUME, TEXT_RESUME_VACANCY_UPPER, TEXT_HELLO, TEXT_COURSES_VACANCIES, TEXT_STUDY, TEXT_MATERIAL, TEXT_EXPLAIN_CONCEPT, TEXT_CONCEPT_CAPITAL, TEXT_EXPLAIN_UPPER_COURSE, TEXT_NEAR_MISS, <<>>}

\* a tool call of a response: {"function": {"name": ..., "arguments": ...}}
Call(name, arguments) == [function |-> [name |-> name, arguments |-> arguments]]

CALL_RESUME == Call("career_resume_examples", "{\"include_failures\": false}")

CALL_VACANCY_MALFORMED == Call("career_vacancy_reviews", "{bad")

\* a tool name that is not registered
CALL_FOO == Call("foo", "{}")

\* a call without a name
CALL_NAMELESS == [function |-> [arguments |-> "{}"]]

\* a registered tool asked to read a file that does not exist
CALL_MATERIALS_MISSING_PDF == Call("learning_materials_with_reviews", "{\"pdf_path\": \"missing.pdf\"}")

\* a call without arguments
CALL_PATHS == [function |-> [name |-> "learning_career_paths"]]

Calls == {CALL_RESUME, CALL_VACANCY_MALFORMED, CALL_FOO, CALL_NAMELESS, CALL_MATERIALS_MISSING_PDF, CALL_PATHS}

\* the non-empty lists of at most MaxCalls tool calls
CallLists == UNION {[1..n -> Calls] : n \in 1..MaxCalls}

\* content of a first response: "" and "a"; of a response that asks for tools: "t"; of a
\* follow-up response: "b"
CONTENT_A == <<97>>

CONTENT_T == <<116>>

CONTENT_B == <<98>>

Response(message) == [choices |-> <<[message |-> message]>>]

\* first responses that ask for no tool: content alone, neither key, an empty tool_calls
FirstResponsesPlain ==
    {Response([role |-> "assistant", content |-> c]) : c \in {<<>>, CONTENT_A}}
    \cup {Response([role |-> "assistant"]), Response([role |-> "assistant", content |-> CONTENT_A, tool_calls |-> <<>>])}

FirstResponsesTools == {Response([role |-> "assistant", content |-> CONTENT_T, tool_calls |-> calls]) : calls \in CallLists}

FirstResponses == FirstResponsesPlain \cup FirstResponsesTools

\* follow-up responses: content alone, or content and a further request for a tool
FollowupResponses == {Response([role |-> "assistant", content |-> CONTENT_B]), Response([role |-> "assistant", content |-> CONTENT_B, tool_calls |-> <<CALL_PATHS>>])}

\* the files the user attaches
AttachPaths == {"cv.pdf"}

\* the callers of chat(); one caller in a serial session
Callers == {"main", "other"}

(***************************************************************************)
(* State.                                                                  *)
(*   api_key        the credential of the client (None: offline mode)      *)
(*   tool_registry  ToolRegistry._tools, in insertion order                *)
(*   chat_history   Orchestrator._chat_history                             *)
(*   attachments    Orchestrator._attachments                              *)
(*   pc, frame      where each caller's chat() stands and its locals       *)
(*   requests       the payloads posted by each caller's latest chat()     *)
(*   outcome        how each caller's latest chat() ended                  *)
(*   turn_input     the arguments and responses of that chat(), and when   *)
(*                  it started                                             *)
(*   turns          chat() calls started                                   *)
(*   offline_seen   the offline selections returned so far                 *)
(*   unit_call      the latest direct call of a library function, with its  *)
(*                  arguments and what it gave                              *)
(***************************************************************************)
NoMessage == [role |-> "none"]

NoReply == [status |-> "none", message |-> NoMessage]

NoFrame == [user_entry |-> NoMessage, used_tools |-> <<>>]

NoOutcome == [kind |-> "none", answer |-> <<>>, used_tools |-> <<>>, attachments |-> <<>>, error |-> ""]

\* no library function has been called directly
NoCall == [op |-> "none"]

NoInput == [user_message |-> <<>>, history_before |-> <<>>, attachments_before |-> <<>>, first |-> NoReply, followup |-> NoReply, ordinal |-> 0, alone |-> TRUE]

\* Orchestrator.__init__, with a client built with or without a credential
Init ==
    /\ api_key \in {None, "secret"}
    /\ tool_registry = ToolRegistry_init(collect_tools)
    /\ chat_history = <<>>
    /\ attachments = <<>>
    /\ pc = [c \in Callers |-> "idle"]
    /\ frame = [c \in Callers |-> NoFrame]
    /\ requests = [c \in Callers |-> <<>>]
    /\ outcome = [c \in Callers |-> NoOutcome]
    /\ turn_input = [c \in Callers |-> NoInput]
    /\ turns = 0
    /\ offline_seen = {}
    /\ unit_call = NoCall

(***************************************************************************)
(* Operations.                                                             *)
(***************************************************************************)
\* Orchestrator.attach_pdf(path) for a file that can be read (for one that cannot,
\* extract_text_from_pdf raises before anything is assigned)
AttachPdf(path) ==
    /\ Len(attachments) < MaxAttach
    /\ path \in ReadablePaths
    /\ LET text == extract_text_from_pdf(path)
           excerpt == summarize_chunks(<<text>>, ATTACH_MAX_CHARS)
           document == [name |-> Files[path].name, excerpt |-> excerpt]
       IN  attachments' = Append(attachments, document)
    /\ UNCHANGED <<unit_call, api_key, tool_registry, chat_history, pc, frame, requests, outcome, turn_input, turns, offline_seen>>

\* the arguments of a chat() call, as the call starts: ordinal numbers the chat() calls of the
\* session in the order they start, alone tells that no other chat() call is in progress
StartInput(user_message) ==
    [NoInput EXCEPT !.user_message = user_message, !.history_before = chat_history, !.attachments_before = attachments,
                    !.ordinal = turns + 1, !.alone = \A c \in Callers : pc[c] = "idle"]

\* the tool names of a ledger, in order
LedgerNames(used_tools) == [i \in 1..Len(used_tools) |-> used_tools[i].name]

\* Orchestrator.chat(user_message) without a credential: lines 65-71 and _offline_chat
ChatOffline(c, user_message) ==
    /\ pc[c] = "idle"
    /\ ~client_available(api_key)
    /\ LET user_entry == [role |-> "user", content |-> user_message]
           done == offline_chat(user_message, Append(chat_history, user_entry), tool_registry, attachments)
       IN  /\ chat_history' = done.history
           /\ outcome' = [outcome EXCEPT ![c] = done.outcome]
           /\ offline_seen' = IF done.outcome.kind = "returned"
                              THEN offline_seen \cup {[text |-> user_message, names |-> LedgerNames(done.outcome.used_tools), documents |-> Len(attachments)]}
                              ELSE offline_seen
    /\ turns' = turns + 1
    /\ turn_input' = [turn_input EXCEPT ![c] = StartInput(user_message)]
    /\ requests' = [requests EXCEPT ![c] = <<>>]
    /\ frame' = [frame EXCEPT ![c] = NoFrame]
    /\ UNCHANGED <<unit_call, api_key, tool_registry, attachments, pc>>

\* a chat() that records the user message before it posts the first request, as the
\* offline path does
ChatRequest_records_user_first(c, user_message) ==
    /\ pc[c] = "idle"
    /\ client_available(api_key)
    /\ LET user_entry == [role |-> "user", content |-> user_message]
           messages == <<SystemMessage(attachments)>> \o chat_history \o <<user_entry>>
       IN  /\ requests' = [requests EXCEPT ![c] = <<client_payload(messages, describe_for_llm(tool_registry), "auto")>>]
           /\ frame' = [frame EXCEPT ![c] = [user_entry |-> user_entry, used_tools |-> <<>>]]
           /\ chat_history' = Append(chat_history, user_entry)
    /\ pc' = [pc EXCEPT ![c] = "first"]
    /\ turns' = turns + 1
    /\ turn_input' = [turn_input EXCEPT ![c] = StartInput(user_message)]
    /\ outcome' = [outcome EXCEPT ![c] = NoOutcome]
    /\ UNCHANGED <<unit_call, api_key, tool_registry, attachments, offline_seen>>

\* Orchestrator.chat(user_message) with a credential, up to the first completion request
\* (lines 65-73)
ChatRequest(c, user_message) ==
    /\ pc[c] = "idle"
    /\ client_available(api_key)
    /\ LET user_entry == [role |-> "user", content |-> user_message]
           messages == <<SystemMessage(attachments)>> \o chat_history \o <<user_entry>>
       IN  /\ requests' = [requests EXCEPT ![c] = <<client_payload(messages, describe_for_llm(tool_registry), "auto")>>]
           /\ frame' = [frame EXCEPT ![c] = [user_entry |-> user_entry, used_tools |-> <<>>]]
    /\ pc' = [pc EXCEPT ![c] = "first"]
    /\ turns' = turns + 1
    /\ turn_input' = [turn_input EXCEPT ![c] = StartInput(user_message)]
    /\ outcome' = [outcome EXCEPT ![c] = NoOutcome]
    /\ UNCHANGED <<unit_call, api_key, tool_registry, chat_history, attachments, offline_seen>>

\* a client that gives an empty response for a non-success status instead of raising:
\* chat() goes on as for a response without a message
FirstFails_returns_empty(c) ==
    /\ pc[c] = "first"
    /\ chat_history' = chat_history \o <<frame[c].user_entry, [role |-> "assistant", content |-> <<>>]>>
    /\ outcome' = [outcome EXCEPT ![c] = ReturnedOutcome(<<>>, <<>>, attachments)]
    /\ pc' = [pc EXCEPT ![c] = "idle"]
    /\ turn_input' = [turn_input EXCEPT ![c].first = [status |-> "error", message |-> NoMessage]]
    /\ frame' = [frame EXCEPT ![c] = NoFrame]
    /\ UNCHANGED <<unit_call, api_key, tool_registry, attachments, requests, turns, offline_seen>>

\* the first request gets a non-success status: GigaChatClient.chat raises GigaChatError
\* (gigachat.py lines 53-55) and chat() ends at line 73
FirstFails(c) ==
    /\ pc[c] = "first"
    /\ pc' = [pc EXCEPT ![c] = "idle"]
    /\ outcome' = [outcome EXCEPT ![c] = RaisedOutcome("GigaChatError")]
    /\ turn_input' = [turn_input EXCEPT ![c].first = [status |-> "error", message |-> NoMessage]]
    /\ frame' = [frame EXCEPT ![c] = NoFrame]
    /\ UNCHANGED <<unit_call, api_key, tool_registry, chat_history, attachments, requests, turns, offline_seen>>

\* a chat() that appends the assistant message in the else branch and again after it
FirstPlain_appends_twice(c, response) ==
    /\ pc[c] = "first"
    /\ ~HasToolCalls(ResponseMessage(response))
    /\ LET assistant_content == ContentOf(ResponseMessage(response))
       IN  /\ chat_history' = chat_history \o <<frame[c].user_entry, [role |-> "assistant", content |-> assistant_content], [role |-> "assistant", content |-> assistant_content]>>
           /\ outcome' = [outcome EXCEPT ![c] = ReturnedOutcome(assistant_content, <<>>, attachments)]
    /\ pc' = [pc EXCEPT ![c] = "idle"]
    /\ turn_input' = [turn_input EXCEPT ![c].first = [status |-> "ok", message |-> ResponseMessage(response)]]
    /\ frame' = [frame EXCEPT ![c] = NoFrame]
    /\ UNCHANGED <<unit_call, api_key, tool_registry, attachments, requests, turns, offline_seen>>

\* the first response has no tool calls: lines 74-78 and 84-92
FirstPlain(c, response) ==
    /\ pc[c] = "first"
    /\ ~HasToolCalls(ResponseMessage(response))
    /\ LET assistant_content == ContentOf(ResponseMessage(response))
       IN  /\ chat_history' = chat_history \o <<frame[c].user_entry, [role |-> "assistant", content |-> assistant_content]>>
           /\ outcome' = [outcome EXCEPT ![c] = ReturnedOutcome(assistant_content, <<>>, attachments)]
    /\ pc' = [pc EXCEPT ![c] = "idle"]
    /\ turn_input' = [turn_input EXCEPT ![c].first = [status |-> "ok", message |-> ResponseMessage(response)]]
    /\ frame' = [frame EXCEPT ![c] = NoFrame]
    /\ UNCHANGED <<unit_call, api_key, tool_registry, attachments, requests, turns, offline_seen>>

\* the history and ledger after lines 75-80 of chat(), for a first response with tool calls
Dispatch(c, message) ==
    process_tool_calls(Get(message, "tool_calls", <<>>),
                       chat_history \o <<frame[c].user_entry, [role |-> "assistant", content |-> ContentOf(message)]>>,
                       tool_registry)

\* the first response has tool calls and they are all dispatched: lines 74-82, up to the
\* follow-up request
FirstTools(c, response) ==
    /\ pc[c] = "first"
    /\ HasToolCalls(ResponseMessage(response))
    /\ LET done == Dispatch(c, ResponseMessage(response))
       IN  /\ done.error = ""
           /\ chat_history' = done.history
           /\ frame' = [frame EXCEPT ![c].used_tools = done.used_tools]
           /\ requests' = [requests EXCEPT ![c] = Append(@, client_payload(follow_up_messages(done.history, attachments), <<>>, DEFAULT_TOOL_CHOICE))]
    /\ pc' = [pc EXCEPT ![c] = "followup"]
    /\ turn_input' = [turn_input EXCEPT ![c].first = [status |-> "ok", message |-> ResponseMessage(response)]]
    /\ UNCHANGED <<unit_call, api_key, tool_registry, attachments, outcome, turns, offline_seen>>

\* the first response has tool calls and one of them raises in _process_tool_calls: the
\* exception leaves chat() at line 80
FirstToolsRaise(c, response) ==
    /\ pc[c] = "first"
    /\ HasToolCalls(ResponseMessage(response))
    /\ LET done == Dispatch(c, ResponseMessage(response))
       IN  /\ done.error # ""
           /\ chat_history' = done.history
           /\ outcome' = [outcome EXCEPT ![c] = RaisedOutcome(done.error)]
    /\ pc' = [pc EXCEPT ![c] = "idle"]
    /\ turn_input' = [turn_input EXCEPT ![c].first = [status |-> "ok", message |-> ResponseMessage(response)]]
    /\ frame' = [frame EXCEPT ![c] = NoFrame]
    /\ UNCHANGED <<unit_call, api_key, tool_registry, attachments, requests, turns, offline_seen>>

\* the follow-up request gets a non-success status: chat() ends at line 82
FollowupFails(c) ==
    /\ pc[c] = "followup"
    /\ pc' = [pc EXCEPT ![c] = "idle"]
    /\ outcome' = [outcome EXCEPT ![c] = RaisedOutcome("GigaChatError")]
    /\ turn_input' = [turn_input EXCEPT ![c].followup = [status |-> "error", message |-> NoMessage]]
    /\ frame' = [frame EXCEPT ![c] = NoFrame]
    /\ UNCHANGED <<unit_call, api_key, tool_registry, chat_history, attachments, requests, turns, offline_seen>>

\* a chat() that returns the follow-up's content without appending it to the history
FollowupReturns_answer_unrecorded(c, response) ==
    /\ pc[c] = "followup"
    /\ LET assistant_content == ContentOf(ResponseMessage(response))
       IN  outcome' = [outcome EXCEPT ![c] = ReturnedOutcome(assistant_content, frame[c].used_tools, attachments)]
    /\ pc' = [pc EXCEPT ![c] = "idle"]
    /\ turn_input' = [turn_input EXCEPT ![c].followup = [status |-> "ok", message |-> ResponseMessage(response)]]
    /\ frame' = [frame EXCEPT ![c] = NoFrame]
    /\ UNCHANGED <<unit_call, api_key, tool_registry, chat_history, attachments, requests, turns, offline_seen>>

\* the follow-up response arrives: lines 83 and 87-92
FollowupReturns(c, response) ==
    /\ pc[c] = "followup"
    /\ LET assistant_content == ContentOf(ResponseMessage(response))
       IN  /\ chat_history' = Append(chat_history, [role |-> "assistant", content |-> assistant_content])
           /\ outcome' = [outcome EXCEPT ![c] = ReturnedOutcome(assistant_content, frame[c].used_tools, attachments)]
    /\ pc' = [pc EXCEPT ![c] = "idle"]
    /\ turn_input' = [turn_input EXCEPT ![c].followup = [status |-> "ok", message |-> ResponseMessage(response)]]
    /\ frame' = [frame EXCEPT ![c] = NoFrame]
    /\ UNCHANGED <<unit_call, api_key, tool_registry, attachments, requests, turns, offline_seen>>

\* every caller is between two chat() calls
AllIdle == \A c \in Callers : pc[c] = "idle"

\* a serial session: one caller, one operation at a time, at most MaxTurns chat() calls
Next ==
    \/ \E path \in AttachPaths : AllIdle /\ AttachPdf(path)
    \/ \E text \in UserTexts : turns < MaxTurns /\ ChatOffline("main", text)
    \/ \E text \in UserTexts : turns < MaxTurns /\ ChatRequest("main", text)
    \/ FirstFails("main")
    \/ \E response \in FirstResponses : FirstPlain("main", response)
    \/ \E response \in FirstResponses : FirstTools("main", response)
    \/ \E response \in FirstResponses : FirstToolsRaise("main", response)
    \/ FollowupFails("main")
    \/ \E response \in FollowupResponses : FollowupReturns("main", response)

Spec == Init /\ [][Next]_vars

\* an offline session: the client has no credential
InitOffline == Init /\ api_key = None

NextOffline ==
    \/ \E path \in AttachPaths : AttachPdf(path)
    \/ \E text \in OfflineTexts : turns < MaxOfflineTurns /\ ChatOffline("main", text)

SpecOffline == InitOffline /\ [][NextOffline]_vars

\* the files a session attaches when it is the excerpts that are looked at: a short document,
\* one without pages and one longer than the budget
DocumentPaths == {"cv.pdf", "blank.pdf", "long.pdf"}

\* a serial session of attach_pdf() and chat() calls over these documents
NextAttach ==
    \/ \E path \in DocumentPaths : AllIdle /\ AttachPdf(path)
    \/ turns < MaxTurns /\ ChatOffline("main", TEXT_SHOW_RESUME)
    \/ turns < MaxTurns /\ ChatRequest("main", TEXT_SHOW_RESUME)
    \/ FirstFails("main")
    \/ \E response \in FirstResponses : FirstPlain("main", response)
    \/ \E response \in FirstResponses : FirstTools("main", response)
    \/ \E response \in FirstResponses : FirstToolsRaise("main", response)
    \/ FollowupFails("main")
    \/ \E response \in FollowupResponses : FollowupReturns("main", response)

SpecAttach == Init /\ [][NextAttach]_vars

\* what each caller says when two callers share the orchestrator: "покажи примеры резюме" and
\* "привет"
CallerText == [c \in Callers |-> IF c = "main" THEN TEXT_SHOW_RESUME ELSE TEXT_HELLO]

\* two callers on one orchestrator, as threads calling chat() on the same instance: nothing
\* in chat() holds a caller back while another call waits for the remote service, so the steps
\* of the calls interleave at the completion requests
NextConcurrent ==
    \/ \E c \in Callers : turns < MaxTurns /\ ChatOffline(c, CallerText[c])
    \/ \E c \in Callers : turns < MaxTurns /\ ChatRequest(c, CallerText[c])
    \/ \E c \in Callers : FirstFails(c)
    \/ \E c \in Callers, response \in FirstResponses : FirstPlain(c, response)
    \/ \E c \in Callers, response \in FirstResponses : FirstTools(c, response)
    \/ \E c \in Callers, response \in FirstResponses : FirstToolsRaise(c, response)
    \/ \E c \in Callers : FollowupFails(c)
    \/ \E c \in Callers, response \in FollowupResponses : FollowupReturns(c, response)

SpecConcurrent == Init /\ [][NextConcurrent]_vars

(***************************************************************************)
(* Direct calls of the library: a command or a caller other than chat()    *)
(* applies one function to its arguments; unit_call holds the call and     *)
(* what it gave.                                                           *)
(***************************************************************************)
\* the levels a roadmap is asked for: the six of the level order, one with a capital, one
\* the order does not hold ("lead") and the empty one
RoadmapLevels == {LEVEL_ORDER[i] : i \in 1..Len(LEVEL_ORDER)} \cup {<<74, 117, 110, 105, 111, 114>>, <<108, 101, 97, 100>>, <<>>}

\* "frontend"
DIRECTION_FRONTEND == <<102, 114, 111, 110, 116, 101, 110, 100>>

\* main: the roadmap command, orchestrator.create_roadmap(direction, current, target)
CallCreateRoadmap(direction, current, target) ==
    /\ unit_call' = [op |-> "create_roadmap", current |-> current, target |-> target, result |-> create_roadmap(direction, current, target)]
    /\ UNCHANGED <<api_key, tool_registry, chat_history, attachments, pc, frame, requests, outcome, turn_input, turns, offline_seen>>

\* the names a tool is run by: the six registered ones, an unknown one, the empty one and
\* None
RunNames == {"career_resume_examples", "career_vacancy_reviews", "career_interview_qa", "learning_career_paths", "learning_materials_with_reviews", "learning_simple_explanations", "foo", "", None}

\* the payloads a tool is run with: None, {}, a dict naming a file that is missing, one
\* naming a term, and a list
RunPayloads ==
    {PyNone, PyDict(EmptyDict), PyDict([EmptyDict EXCEPT !.keys = {"pdf_path"}, !.pdf_path = MISSING_PDF]),
     PyDict([EmptyDict EXCEPT !.keys = {"term"}, !.term = <<65, 80, 73>>]), PyList(1)}

\* a caller's self._tool_registry.run(name, payload); an exception of run is the caller's
\* to handle, the registry keeps its tools
CallRegistryRun(name, payload) ==
    /\ unit_call' = [op |-> "run", name |-> name, payload |-> payload,
                     result |-> ToolRegistry_run(tool_registry, name, payload),
                     handlers |-> HandlersRun(tool_registry, name)]
    /\ UNCHANGED <<api_key, tool_registry, chat_history, attachments, pc, frame, requests, outcome, turn_input, turns, offline_seen>>

\* chunks a summary is asked of: "", " ", "ab", " cd " and "efg"
ChunkTexts == {<<>>, <<32>>, <<97, 98>>, <<32, 99, 100, 32>>, <<101, 102, 103>>}

\* chunks handed to one summarize_chunks call
MaxChunks == 2

\* the largest character budget asked for
MaxBudget == 5

\* the lists of at most MaxChunks chunks
ChunkLists == UNION {[1..n -> ChunkTexts] : n \in 0..MaxChunks}

\* a caller's summarize_chunks(chunks, max_chars)
CallSummarizeChunks(chunks, max_chars) ==
    /\ unit_call' = [op |-> "summarize_chunks", chunks |-> chunks, max_chars |-> max_chars, result |-> summarize_chunks(chunks, max_chars)]
    /\ UNCHANGED <<api_key, tool_registry, chat_history, attachments, pc, frame, requests, outcome, turn_input, turns, offline_seen>>

NextUnit ==
    \/ \E current \in RoadmapLevels, target \in RoadmapLevels : CallCreateRoadmap(DIRECTION_FRONTEND, current, target)
    \/ \E name \in RunNames, payload \in RunPayloads : CallRegistryRun(name, payload)
    \/ \E chunks \in ChunkLists, max_chars \in 0..MaxBudget : CallSummarizeChunks(chunks, max_chars)

SpecUnit == Init /\ [][NextUnit]_vars
(***************************************************************************)
(* What the claims speak of, read from the state of the caller "main".     *)
(***************************************************************************)
\* the message of the first response of the latest chat(), once it has arrived
FirstMessage == turn_input["main"].first.message

FirstArrived == turn_input["main"].first.status = "ok"

\* the tool calls the first response carries (none when the key is absent)
FirstCalls == IF "tool_calls" \in DOMAIN FirstMessage THEN FirstMessage.tool_calls ELSE <<>>

\* the content the first response carries ("" when the key is absent)
FirstContent == IF "content" \in DOMAIN FirstMessage THEN FirstMessage.content ELSE <<>>

FollowupContent == IF "content" \in DOMAIN turn_input["main"].followup.message THEN turn_input["main"].followup.message.content ELSE <<>>

\* the name a call carries ("" when it carries none)
CallName(call) == IF "function" \in DOMAIN call /\ "name" \in DOMAIN call.function THEN call.function.name ELSE ""

\* the raw arguments a call carries ("" when it carries none)
CallArguments(call) == IF "function" \in DOMAIN call /\ "arguments" \in DOMAIN call.function THEN call.function.arguments ELSE ""

\* the names of the six tools the orchestrator registers
RegisteredNames == {"career_resume_examples", "career_vacancy_reviews", "career_interview_qa", "learning_career_paths", "learning_materials_with_reviews", "learning_simple_explanations"}

\* the messages the latest chat() has added to the history
TurnMessages == SubSeq(chat_history, Len(turn_input["main"].history_before) + 1, Len(chat_history))

\* the tool-role messages among them
TurnToolMessages == SelectSeq(TurnMessages, LAMBDA m : m.role = "tool")

\* the follow-up request of the latest chat() has been posted
FollowupIssued == Len(requests["main"]) = 2

(***************************************************************************)
(* C1.  The conversation history is append-only: every step of chat()      *)
(* (online or offline, returning or raising) and of attach_pdf() leaves    *)
(* the history it found as a prefix of the history it leaves.              *)
(***************************************************************************)
C1_HistoryAppendOnly == [][IsPrefix(chat_history, chat_history')]_vars

\* a second chat() has returned on a history that held the first turn, with a document
\* attached and tool messages written
C1_Witness ==
    /\ turns = 2
    /\ outcome["main"].kind = "returned"
    /\ Len(turn_input["main"].history_before) >= 2
    /\ Len(TurnToolMessages) >= 1
    /\ attachments # <<>>
    /\ IsPrefix(turn_input["main"].history_before, chat_history)

(***************************************************************************)
(* C2.  An online turn whose first response asks only for unregistered     *)
(* tools does not raise by itself, still posts the follow-up request,      *)
(* returns an empty used_tools and the follow-up response's content.       *)
(***************************************************************************)
OnlyUnregisteredCalls == FirstArrived /\ FirstCalls # <<>> /\ \A i \in 1..Len(FirstCalls) : CallName(FirstCalls[i]) \notin RegisteredNames \cup {""}

\* C2: a call of an unregistered tool is skipped, the follow-up is posted and its content returned
C2_UnknownToolSkipped ==
    OnlyUnregisteredCalls =>
        /\ FollowupIssued
        /\ outcome["main"].kind = "raised" => outcome["main"].error = "GigaChatError"
        /\ outcome["main"].kind = "returned" => outcome["main"].used_tools = <<>> /\ outcome["main"].answer = FollowupContent

(***************************************************************************)
(* C3.  An online turn whose first response carries no tool calls (the key *)
(* absent or the list empty) posts exactly one completion request and      *)
(* returns the content of that first response.                             *)
(***************************************************************************)
NoToolCallsRequested == FirstArrived /\ FirstCalls = <<>>

\* C3: a first response without tool calls ends the turn after one request, its content the answer
C3_NoToolCallsOneRequest ==
    NoToolCallsRequested =>
        /\ Len(requests["main"]) = 1
        /\ pc["main"] = "idle"
        /\ outcome["main"].kind = "returned"
        /\ outcome["main"].answer = FirstContent
        /\ outcome["main"].used_tools = <<>>

\* such a turn, its response carrying an empty tool_calls list, has returned after an
\* earlier turn
C3_Witness ==
    /\ NoToolCallsRequested
    /\ "tool_calls" \in DOMAIN FirstMessage
    /\ outcome["main"].kind = "returned"
    /\ outcome["main"].answer = CONTENT_A
    /\ Len(requests["main"]) = 1
    /\ turns = 2

(***************************************************************************)
(* C4.  An online turn whose first response carries N tool calls, all of   *)
(* registered tools, appends exactly N tool-role messages, in the order of *)
(* the calls, before it posts the follow-up request, and returns a ledger  *)
(* of exactly N entries in that order.                                     *)
(***************************************************************************)
AllCallsRegistered == FirstArrived /\ FirstCalls # <<>> /\ \A i \in 1..Len(FirstCalls) : CallName(FirstCalls[i]) \in RegisteredNames

\* C4: N calls of registered tools leave N tool messages in call order and N ledger entries
C4_ExactlyNToolMessages ==
    AllCallsRegistered =>
        /\ Len(TurnToolMessages) = Len(FirstCalls)
        /\ \A i \in 1..Len(FirstCalls) : TurnToolMessages[i].name = CallName(FirstCalls[i])
        /\ FollowupIssued
        /\ Len(SelectSeq(requests["main"][2].messages, LAMBDA m : m.role = "tool")) = Len(FirstCalls)
        /\ outcome["main"].kind = "returned" =>
            /\ Len(outcome["main"].used_tools) = Len(FirstCalls)
            /\ \A i \in 1..Len(FirstCalls) : outcome["main"].used_tools[i].name = CallName(FirstCalls[i])

(***************************************************************************)
(* C5.  The follow-up (second) completion request of a turn carries no     *)
(* tool descriptors: its payload has neither a tools nor a tool_choice     *)
(* field.                                                                  *)
(***************************************************************************)
C5_FollowupWithoutTools ==
    \A c \in Callers : Len(requests[c]) >= 2 =>
        /\ "tools" \notin DOMAIN requests[c][2]
        /\ "tool_choice" \notin DOMAIN requests[c][2]
        /\ "messages" \in DOMAIN requests[c][2]

\* a follow-up request has been posted in a turn whose first request advertised the six tools
C5_Witness ==
    /\ pc["main"] = "followup"
    /\ Len(requests["main"]) = 2
    /\ "tools" \in DOMAIN requests["main"][1]
    /\ Len(requests["main"][1].tools) = 6
    /\ requests["main"][1].tool_choice = "auto"

(***************************************************************************)
(* C6.  The message list of the follow-up request is the system prompt     *)
(* followed by the whole history of that moment: the history the turn      *)
(* found, this turn's user message, the intermediate assistant message,    *)
(* then one tool-role message per dispatched call, in the order of the     *)
(* calls.                                                                  *)
(***************************************************************************)
\* the calls of the first response that carry a name, in order: those that are dispatched
NamedCalls == SelectSeq(FirstCalls, LAMBDA call : CallName(call) # "")

\* the history as it was when the follow-up request was posted
HistoryAtFollowup == IF outcome["main"].kind = "returned" THEN SubSeq(chat_history, 1, Len(chat_history) - 1) ELSE chat_history

\* the ledger of the turn, while chat() holds it and once it has returned it
TurnLedger == IF pc["main"] = "followup" THEN frame["main"].used_tools ELSE outcome["main"].used_tools

LedgerKnown == pc["main"] = "followup" \/ outcome["main"].kind = "returned"

\* C6: the follow-up request carries the system prompt and the whole history, tool messages included
C6_FollowupCarriesToolMessages ==
    FollowupIssued =>
        LET sent == requests["main"][2].messages
            before == turn_input["main"].history_before
            k == Len(before)
        IN  /\ sent = <<[role |-> "system", content |-> build_system_prompt(turn_input["main"].attachments_before)]>> \o HistoryAtFollowup
            /\ Len(sent) = k + 3 + Len(NamedCalls)
            /\ SubSeq(sent, 2, k + 1) = before
            /\ sent[k + 2] = [role |-> "user", content |-> turn_input["main"].user_message]
            /\ sent[k + 3] = [role |-> "assistant", content |-> FirstContent]
            /\ \A i \in 1..Len(NamedCalls) : sent[k + 3 + i].role = "tool" /\ sent[k + 3 + i].name = CallName(NamedCalls[i])
            /\ LedgerKnown => \A i \in 1..Len(NamedCalls) : sent[k + 3 + i].content = json_dumps(TurnLedger[i].output)

\* a follow-up request carrying two tool messages of different tools, in a second turn
C6_Witness ==
    /\ FollowupIssued
    /\ pc["main"] = "followup"
    /\ Len(NamedCalls) = 2
    /\ CallName(NamedCalls[1]) # CallName(NamedCalls[2])
    /\ Len(turn_input["main"].history_before) >= 2
    /\ attachments # <<>>

(***************************************************************************)
(* C7.  A tool call of a registered tool whose arguments are not JSON does *)
(* not abort the turn: the tool runs with an empty argument object, its    *)
(* tool-role message and its ledger entry (arguments = {}) are recorded,   *)
(* the calls after it are dispatched, and the follow-up request is posted  *)
(* when no other call stops the turn.                                      *)
(***************************************************************************)
\* raw argument strings that are not JSON
MalformedArguments == {"{bad"}

\* the calls every part of which is in order: a registered tool with arguments it accepts or
\* with malformed ones, or a call without a name
HarmlessCalls == {CALL_RESUME, CALL_PATHS, CALL_NAMELESS, CALL_VACANCY_MALFORMED}

\* the place of call i among the named calls
Pos(i) == Cardinality({j \in 1..i : CallName(FirstCalls[j]) # ""})

\* what career_vacancy_reviews gives for an empty argument object
VacancyOutputOfEmpty == [vacancies |-> <<"vacancy_good_frontend", "vacancy_bad_analyst">>, comment |-> <<>>, pdf_excerpt |-> [some |-> FALSE, v |-> <<>>]]

C8_OfflineNeverCallsClient ==
    api_key = None =>
        /\ \A c \in Callers : requests[c] = <<>> /\ pc[c] = "idle" /\ outcome[c].kind # "raised"
        /\ turns > 0 => outcome["main"].kind = "returned"

\* two offline turns have returned, the second on a history that held the first, with a
\* document attached
C8_Witness ==
    /\ api_key = None
    /\ turns = 2
    /\ outcome["main"].kind = "returned"
    /\ Len(chat_history) = 4
    /\ attachments # <<>>

(***************************************************************************)
(* C9.  Offline determinism: with no attached documents, two offline       *)
(* chat() calls given the same user text return the same tool names in the *)
(* same order, whatever the history and the number of earlier turns.       *)
(***************************************************************************)
C9_OfflineSelectionDeterministic ==
    \A p, q \in offline_seen : (p.text = q.text /\ p.documents = 0 /\ q.documents = 0) => p.names = q.names

\* the same text was sent in the first and in the third turn, another text between them
C9_Witness ==
    /\ api_key = None
    /\ attachments = <<>>
    /\ Len(chat_history) = 6
    /\ chat_history[1].content = chat_history[5].content
    /\ chat_history[3].content # chat_history[1].content
    /\ chat_history[2].content # chat_history[4].content
    /\ chat_history[2].content = chat_history[6].content

(***************************************************************************)
(* C10.  Offline tool selection is the fixed keyword mapping applied to    *)
(* the lowercased user text, in the mapping's order, learning_career_paths *)
(* alone when no keyword matches; every offline answer starts with         *)
(* "GigaChat временно недоступен".                                         *)
(***************************************************************************)
\* the selection the mapping gives for each user text of an offline session
ExpectedSelection(text) ==
    CASE text = TEXT_SHOW_RESUME -> <<"career_resume_examples">>
      [] text = TEXT_RESUME_VACANCY_UPPER -> <<"career_resume_examples", "career_vacancy_reviews">>
      [] text = TEXT_HELLO -> <<"learning_career_paths">>
      [] text = TEXT_COURSES_VACANCIES -> <<"career_vacancy_reviews", "learning_materials_with_reviews">>
      [] text = TEXT_STUDY -> <<"learning_materials_with_reviews">>
      [] text = TEXT_MATERIAL -> <<"learning_materials_with_reviews">>
      [] text = TEXT_EXPLAIN_CONCEPT -> <<"learning_simple_explanations">>
      [] text = TEXT_CONCEPT_CAPITAL -> <<"learning_simple_explanations">>
      [] text = TEXT_EXPLAIN_UPPER_COURSE -> <<"learning_materials_with_reviews", "learning_simple_explanations">>
      [] text = TEXT_NEAR_MISS -> <<"learning_career_paths">>
      [] text = <<>> -> <<"learning_career_paths">>

\* C10: the offline answer uses the tools the keywords of the message select and starts with the prefix
C10_OfflineKeywordMapping ==
    /\ (api_key = None /\ outcome["main"].kind = "returned") =>
        /\ Len(outcome["main"].used_tools) = Len(ExpectedSelection(turn_input["main"].user_message))
        /\ \A i \in 1..Len(outcome["main"].used_tools) : outcome["main"].used_tools[i].name = ExpectedSelection(turn_input["main"].user_message)[i]
        /\ IsPrefix(CLAIMED_PREFIX, outcome["main"].answer)
    /\ api_key = None => \A i \in 1..Len(chat_history) : chat_history[i].role = "assistant" => IsPrefix(CLAIMED_PREFIX, chat_history[i].content)

\* "Курсы по вакансиям" has selected the vacancy tool and then the materials tool, in a
\* later turn of a session
C10_Witness ==
    /\ api_key = None
    /\ outcome["main"].kind = "returned"
    /\ turn_input["main"].user_message = TEXT_COURSES_VACANCIES
    /\ Len(outcome["main"].used_tools) = 2
    /\ outcome["main"].used_tools[1].name = "career_vacancy_reviews"
    /\ outcome["main"].used_tools[2].name = "learning_materials_with_reviews"
    /\ Len(turn_input["main"].history_before) >= 2


(***************************************************************************)
(* C11. The excerpt attach_pdf() stores is at most 2000 characters long,   *)
(* for a document without text, a short one and one far longer than the    *)
(* budget, and every document the orchestrator holds keeps this bound      *)
(* after any sequence of attach_pdf() and chat() calls.                    *)
(***************************************************************************)
C11_ExcerptWithinBudget == \A i \in 1..Len(attachments) : Len(attachments[i].excerpt) <= 2000

\* the long document is held, cut to the budget, and a chat() call has returned since
C11_Witness ==
    /\ \E i \in 1..Len(attachments) : Len(attachments[i].excerpt) = 2000 /\ Len(extract_text_from_pdf("long.pdf")) > 2000
    /\ outcome["main"].kind = "returned"
    /\ Len(turn_input["main"].attachments_before) = 1

(***************************************************************************)
(* C12. After every chat() call that returns, online with or without tool  *)
(* calls or offline, the last message of the history is an assistant-role  *)
(* message whose content is the returned answer.                           *)
(***************************************************************************)
C12_LastMessageIsAnswer ==
    outcome["main"].kind = "returned" =>
        /\ chat_history # <<>>
        /\ chat_history[Len(chat_history)].role = "assistant"
        /\ chat_history[Len(chat_history)].content = outcome["main"].answer

\* a second turn has returned the follow-up's content after dispatching a tool, the tool
\* message being the one before the answer
C12_Witness ==
    /\ outcome["main"].kind = "returned"
    /\ outcome["main"].used_tools # <<>>
    /\ outcome["main"].answer = CONTENT_B
    /\ Len(turn_input["main"].history_before) >= 2
    /\ chat_history[Len(chat_history) - 1].role = "tool"

(***************************************************************************)
(* C13. For every pair of current and target levels of the level order,    *)
(* create_roadmap reports months = 2 + (index(target) - index(current)) *  *)
(* 3, rendered as the range "{months}-{months+2}" (with an en dash).       *)
(* As amended: months = 2 + max(0, index(target) - index(current)) * 3, so *)
(* a target that is not above the current level gives 2-4.                 *)
(***************************************************************************)
\* the 0-based place of a level in the order
LevelIndex(level) == (CHOOSE i \in 1..Len(LEVEL_ORDER) : LEVEL_ORDER[i] = level) - 1

InLevelOrder(level) == \E i \in 1..Len(LEVEL_ORDER) : LEVEL_ORDER[i] = level

\* a roadmap has been made for two levels of the order
RoadmapOfOrderedLevels == unit_call.op = "create_roadmap" /\ InLevelOrder(unit_call.current) /\ InLevelOrder(unit_call.target)

\* "{months}-{months+2}"
RenderedRange(months) == str_int(months) \o <<8211>> \o str_int(months + 2)

\* the duration is the range of these months, followed by a space
ReportsMonths(months) == IsPrefix(RenderedRange(months) \o <<32>>, unit_call.result.duration)

\* the claim as stated
C13_MonthsByLevelDifference ==
    RoadmapOfOrderedLevels =>
        ReportsMonths(2 + (LevelIndex(unit_call.target) - LevelIndex(unit_call.current)) * 3)

\* the claim as amended
C13_MonthsByClampedDifference ==
    RoadmapOfOrderedLevels =>
        LET difference == LevelIndex(unit_call.target) - LevelIndex(unit_call.current)
        IN  ReportsMonths(2 + (IF difference > 0 THEN difference ELSE 0) * 3)

\* junior to senior has given "8-10 ..."
C13_Witness ==
    /\ unit_call.op = "create_roadmap"
    /\ unit_call.current = LEVEL_ORDER[4]
    /\ unit_call.target = LEVEL_ORDER[6]
    /\ IsPrefix(<<56, 8211, 49, 48, 32>>, unit_call.result.duration)

(***************************************************************************)
(* C14. ToolRegistry.run(name, payload) with a name that is not registered *)
(* fails with KeyError without calling any handler and leaves the          *)
(* registered tools as they were; with a registered name it calls exactly  *)
(* that tool's handler (with {} in place of an empty payload).             *)
(***************************************************************************)
C14_RunLooksUpTheTool ==
    unit_call.op = "run" =>
        /\ ToolRegistry_names(tool_registry) = <<"career_resume_examples", "career_vacancy_reviews", "career_interview_qa", "learning_career_paths", "learning_materials_with_reviews", "learning_simple_explanations">>
        /\ IF unit_call.name \in RegisteredNames
           THEN /\ unit_call.handlers = <<unit_call.name>>
                /\ unit_call.result = CallHandler(unit_call.name, IF Falsy(unit_call.payload) THEN PyDict(EmptyDict) ELSE unit_call.payload)
           ELSE /\ unit_call.handlers = <<>>
                /\ ~unit_call.result.ok
                /\ unit_call.result.error = "KeyError"

\* the name "foo" has been run with a payload a handler would accept
C14_Witness ==
    /\ unit_call.op = "run"
    /\ unit_call.name = "foo"
    /\ unit_call.payload = PyDict(EmptyDict)
    /\ unit_call.result.error = "KeyError"

(***************************************************************************)
(* C15. When a completion request gets a non-success status the client     *)
(* raises GigaChatError and chat() lets it through: the turn ends there,   *)
(* no answer is returned and no further request (no retry, no follow-up)   *)
(* is posted in that turn.                                                 *)
(***************************************************************************)
\* chat() has ended by raising GigaChatError, having posted n requests
AbortedAfter(n) ==
    /\ pc["main"] = "idle"
    /\ outcome["main"].kind = "raised"
    /\ outcome["main"].error = "GigaChatError"
    /\ Len(requests["main"]) = n

\* C15: a failed completion request ends the turn with GigaChatError and no further request
C15_TransportErrorPropagates ==
    /\ turn_input["main"].first.status = "error" => AbortedAfter(1) /\ turn_input["main"].followup = NoReply
    /\ turn_input["main"].followup.status = "error" => AbortedAfter(2)

\* the follow-up request of a turn that dispatched a tool has failed
C15_Witness ==
    /\ turn_input["main"].followup.status = "error"
    /\ TurnToolMessages # <<>>
    /\ outcome["main"].error = "GigaChatError"

(***************************************************************************)
(* C16. In an online turn only a transport error makes chat() raise: an    *)
(* irregularity during tool dispatch, a registered tool whose handler      *)
(* fails included, is absorbed; the remaining calls are dispatched and the *)
(* follow-up request is posted.                                            *)
(***************************************************************************)
C16_OnlyTransportErrorRaises ==
    /\ outcome["main"].kind = "raised" => outcome["main"].error = "GigaChatError"
    /\ FirstArrived /\ HasToolCalls(FirstMessage) => FollowupIssued

(***************************************************************************)
(* C17. Every online turn ends after at most two completion requests,      *)
(* whatever the remote service answers: when the first response asks for   *)
(* tools exactly one follow-up request is posted, and tool calls carried   *)
(* by the follow-up response are never dispatched and start no third       *)
(* request, the follow-up's content being the answer.                      *)
(***************************************************************************)
C17_AtMostTwoRequests ==
    /\ Len(requests["main"]) <= 2
    /\ FirstArrived /\ HasToolCalls(FirstMessage) => Len(requests["main"]) = 2
    /\ turn_input["main"].followup.status = "ok" =>
        /\ pc["main"] = "idle"
        /\ outcome["main"].kind = "returned"
        /\ outcome["main"].answer = FollowupContent
        /\ Len(TurnToolMessages) = Len(NamedCalls)
        /\ Len(outcome["main"].used_tools) = Len(NamedCalls)

(***************************************************************************)
(* C18. The first completion request of every online turn carries the      *)
(* messages [system prompt] + the history as it was when the turn started  *)
(* + [the new user message], the user message once and last, with one tool *)
(* descriptor per registered tool and tool_choice "auto".                  *)
(***************************************************************************)
C18_FirstRequestContents ==
    requests["main"] # <<>> =>
        LET sent == requests["main"][1]
            before == turn_input["main"].history_before
        IN  /\ Len(sent.messages) = Len(before) + 2
            /\ sent.messages[1] = [role |-> "system", content |-> build_system_prompt(turn_input["main"].attachments_before)]
            /\ SubSeq(sent.messages, 2, Len(before) + 1) = before
            /\ sent.messages[Len(sent.messages)] = [role |-> "user", content |-> turn_input["main"].user_message]
            /\ "tools" \in DOMAIN sent /\ "tool_choice" \in DOMAIN sent
            /\ sent.tool_choice = "auto"
            /\ Len(sent.tools) = Len(tool_registry)
            /\ \A i \in 1..Len(sent.tools) :
                /\ sent.tools[i].type = "function"
                /\ sent.tools[i].function.name = tool_registry[i].name
                /\ sent.tools[i].function.parameters = tool_registry[i].input_schema

\* the first request of a second turn, posted with a document attached after a first turn
\* that dispatched a tool
C18_Witness ==
    /\ pc["main"] = "first"
    /\ Len(requests["main"]) = 1
    /\ Len(turn_input["main"].history_before) >= 4
    /\ \E i \in 1..Len(turn_input["main"].history_before) : turn_input["main"].history_before[i].role = "tool"
    /\ turn_input["main"].attachments_before # <<>>

(***************************************************************************)
(* C19. For any sequence of chunks (one or several, empty or not) and any  *)
(* budget max_chars >= 0, the string summarize_chunks returns is at most   *)
(* max_chars long; it is the stripped non-empty chunks in order, the last  *)
(* included chunk cut to the remaining budget rather than dropped.         *)
(***************************************************************************)
\* the stripped chunks that are not empty, in order
KeptChunks(chunks) == SelectSeq([i \in 1..Len(chunks) |-> Strip(chunks[i])], LAMBDA chunk : chunk # <<>>)

RECURSIVE TotalLen(_)
TotalLen(parts) == IF parts = <<>> THEN 0 ELSE Len(Head(parts)) + TotalLen(Tail(parts))

\* the chunks with the budget spent in order: each whole while it fits, the first that
\* does not fit cut to what is left, nothing after it
WithinBudget(kept, max_chars) ==
    LET Left(i) == max_chars - TotalLen(SubSeq(kept, 1, i - 1))
        cut == [i \in 1..Len(kept) |-> IF Left(i) > 0 THEN Take(kept[i], Left(i)) ELSE <<>>]
    IN  SelectSeq(cut, LAMBDA piece : piece # <<>>)

\* the summary is these pieces, one per line
SummaryIsTheChunksInOrder ==
    unit_call.op = "summarize_chunks" =>
        unit_call.result = Join(NEWLINE, WithinBudget(KeptChunks(unit_call.chunks), unit_call.max_chars))

\* C19: the summary is the chunks in order within the budget, and no longer than max_chars
C19_SummaryWithinBudget ==
    /\ SummaryIsTheChunksInOrder
    /\ unit_call.op = "summarize_chunks" => Len(unit_call.result) <= unit_call.max_chars

(***************************************************************************)
(* C20. Each returning chat() grows the history by an exact block:         *)
(* offline, 2 messages (user, assistant); online without tool calls, 2     *)
(* messages (user, assistant with the first response's content, once);     *)
(* online with tool calls, 3 + K messages (user, assistant with the first  *)
(* response's content, one tool message per dispatched call, K of them,    *)
(* then assistant with the follow-up's content).                           *)
(***************************************************************************)
\* the user message of the latest chat()
UserEntry == [role |-> "user", content |-> turn_input["main"].user_message]

AssistantEntry(content) == [role |-> "assistant", content |-> content]

\* C20: the messages a returned chat() has added, by the path it took
C20_HistoryGrowsByBlock ==
    outcome["main"].kind = "returned" =>
        /\ SubSeq(chat_history, 1, Len(turn_input["main"].history_before)) = turn_input["main"].history_before
        /\ IF requests["main"] = <<>>
           THEN TurnMessages = <<UserEntry, AssistantEntry(outcome["main"].answer)>>
           ELSE IF FirstCalls = <<>>
           THEN TurnMessages = <<UserEntry, AssistantEntry(FirstContent)>>
           ELSE /\ Len(TurnMessages) = 3 + Len(NamedCalls)
                /\ TurnMessages[1] = UserEntry
                /\ TurnMessages[2] = AssistantEntry(FirstContent)
                /\ \A i \in 1..Len(NamedCalls) :
                    /\ TurnMessages[2 + i].role = "tool"
                    /\ TurnMessages[2 + i].name = CallName(NamedCalls[i])
                /\ TurnMessages[Len(TurnMessages)] = AssistantEntry(FollowupContent)

\* a second turn has returned after a response of two calls, one of them without a name:
\* one call dispatched, four messages added
C20_Witness ==
    /\ outcome["main"].kind = "returned"
    /\ Len(FirstCalls) = 2
    /\ Len(NamedCalls) = 1
    /\ Len(TurnMessages) = 4
    /\ Len(turn_input["main"].history_before) >= 2

(***************************************************************************)
(* C21. If the first completion request of an online turn fails, chat()    *)
(* leaves the orchestrator as it was before the call: the history (the     *)
(* user message is not recorded) and the attachment list are unchanged, so *)
(* the request of a later turn shows no trace of the failed turn.          *)
(***************************************************************************)
\* the step in which the first request of the turn fails
FirstRequestFails == pc["main"] = "first" /\ pc'["main"] = "idle" /\ turn_input'["main"].first.status = "error"

\* the step in which the next turn posts its first request, the turn before having failed at
\* its first request
TurnAfterFailureStarts == turn_input["main"].first.status = "error" /\ pc["main"] = "idle" /\ pc'["main"] = "first"

\* C21: the failing step leaves history, attachments and registry as the call found them,
\* and the next request carries the history of before the failed turn and one user message
C21_FailedFirstRequestLeavesNoTrace ==
    [][/\ FirstRequestFails =>
            /\ chat_history' = turn_input["main"].history_before
            /\ attachments' = turn_input["main"].attachments_before
            /\ tool_registry' = tool_registry
       /\ TurnAfterFailureStarts =>
            LET sent == requests'["main"][1].messages
            IN  /\ Len(sent) = Len(turn_input["main"].history_before) + 2
                /\ SubSeq(sent, 2, Len(sent) - 1) = turn_input["main"].history_before
                /\ sent[Len(sent)] = [role |-> "user", content |-> turn_input'["main"].user_message]]_vars

\* the first request of a second turn has failed after a first turn that returned, and the
\* history is still that of the first turn
C21_Witness ==
    /\ turn_input["main"].first.status = "error"
    /\ Len(turn_input["main"].history_before) >= 2
    /\ chat_history = turn_input["main"].history_before
    /\ outcome["main"].error = "GigaChatError"

(***************************************************************************)
(* C22. chat() has no guard against concurrent callers: when two chat()    *)
(* turns run interleaved on the same orchestrator, a reachable history has *)
(* the messages of one turn interleaved with the messages of the other,    *)
(* whereas with serialized calls each turn's messages form one contiguous  *)
(* block.                                                                  *)
(***************************************************************************)
\* the latest chat() of caller c ran from start to end with no other chat() in progress, and
\* none has started since
Serialized(c) ==
    /\ turn_input[c].alone
    /\ \A d \in Callers \ {c} : turn_input[d].ordinal < turn_input[c].ordinal

\* the content of a reply ("" when it carries none)
ReplyContent(reply) == IF "content" \in DOMAIN reply.message THEN reply.message.content ELSE <<>>

\* the messages the returned chat() of caller c has written, in the order it wrote them
BlockOf(c) ==
    LET user == [role |-> "user", content |-> turn_input[c].user_message]
        ledger == outcome[c].used_tools
    IN  IF requests[c] = <<>> THEN <<user, AssistantEntry(outcome[c].answer)>>
        ELSE IF Len(requests[c]) = 1 THEN <<user, AssistantEntry(ReplyContent(turn_input[c].first))>>
        ELSE <<user, AssistantEntry(ReplyContent(turn_input[c].first))>>
             \o [i \in 1..Len(ledger) |-> [role |-> "tool", name |-> ledger[i].name, content |-> json_dumps(ledger[i].output)]]
             \o <<AssistantEntry(ReplyContent(turn_input[c].followup))>>

\* C22: a returned chat() that shared no time with another has left its messages as one block
\* right after the history it found
C22_SerializedTurnsAreContiguous ==
    \A c \in Callers :
        outcome[c].kind = "returned" /\ pc[c] = "idle" /\ Serialized(c) =>
            chat_history = turn_input[c].history_before \o BlockOf(c)

\* both callers have returned from overlapping calls: the other caller's user message stands
\* between the tool message and the answer of main's turn, which is the last message
C22_Witness ==
    /\ outcome["main"].kind = "returned" /\ outcome["other"].kind = "returned"
    /\ ~Serialized("main") /\ ~Serialized("other")
    /\ outcome["main"].used_tools # <<>>
    /\ Len(chat_history) = 6
    /\ chat_history[1] = [role |-> "user", content |-> CallerText["main"]]
    /\ chat_history[3].role = "tool"
    /\ chat_history[4] = [role |-> "user", content |-> CallerText["other"]]
    /\ chat_history[5] = AssistantEntry(outcome["other"].answer)
    /\ chat_history[6] = AssistantEntry(outcome["main"].answer)
    /\ outcome["main"].answer # outcome["other"].answer
====
